---- MODULE Spec2Model ----
(***************************************************************************)
(* The learning-session controller of the Tutor frontend: the React state  *)
(* of the LearningSession component (sessions, activeSession, question     *)
(* progression, scoring) together with the QuizDisplay overlay, the event  *)
(* handlers that change it, and the network calls they leave in flight.    *)
(***************************************************************************)
EXTENDS Integers, Sequences, FiniteSets, Bags, TLC

VARIABLES
    limits,               \* the component that is mounted, and the slice of its behaviours explored
    directCalls,          \* handler calls made so far that no rendered control offered
    sessions,             \* useState<LearningSessionData[]>([])
    activeSession,        \* useState<LearningSessionData | null>(null)
    currentQuestion,      \* useState<Question | null>(null)
    currentQuestions,     \* useState<Question[]>([])
    selectedAnswer,       \* useState<string>('')
    showResults,          \* useState(false)
    loading,              \* useState(false)
    error,                \* useState('')
    activeQuizAttempt,    \* useState<any>(null)
    createDialogOpen,     \* useState(false)
    showQuizResults,      \* useState(false)
    quizResults,          \* useState<any>(null)
    currentQuestionIndex, \* QuizDisplay: useState(0)
    selectedAnswers,      \* QuizDisplay: useState<Record<string, string>>({})
    inflight,             \* bag of network calls awaiting their response
    last                  \* the handler or continuation that ran last, and how it ended

vars == <<limits, directCalls, sessions, activeSession, currentQuestion, currentQuestions,
          selectedAnswer, showResults, loading, error,
          activeQuizAttempt, createDialogOpen, showQuizResults, quizResults,
          currentQuestionIndex, selectedAnswers, inflight, last>>

setup == <<limits, directCalls>>

controllerVars == <<sessions, activeSession, currentQuestion, currentQuestions,
                    selectedAnswer, showResults, loading, error,
                    activeQuizAttempt, createDialogOpen, showQuizResults, quizResults>>

-----------------------------------------------------------------------------
(* Bounds *)

MaxQuestions == 2
MaxSessions == 2
MaxAttempted == 2
MaxInflight == 2
MaxFetched == 1
MaxDirectCalls == 1

-----------------------------------------------------------------------------
(* Values *)

Null == [null |-> TRUE]

\* num_questions: 4, numQuestions: 4
NumQuestionsRequested == 4

\* the versions of the component in the repository
Simple == "LearningSessionSimple"

\* the component LearningSessionSimple.tsx begins with: two demo sessions, no
\* counters, no calls but the generation of content
First == "LearningSessionSimple/first"

Full == "LearningSession"

Older == "part_002"

\* currentQuestion.options: two answers that differ only in case
OptionTexts == <<"Paris", "paris">>

\* the keys aiQuizGenerator draws correct_answer from
OptionKeys == <<"A", "B">>

Seeds == {0}

BackendIds == {1}

SessionTypes == {"practice", "quiz", "review", "lesson"}

\* the topic typed into the create dialog; the backend's sessions carry it too
Topic == "Mixed Topics"

CreateError == "Failed to create AI-powered learning session"

StartError == "Failed to generate quiz questions"

RECURSIVE GCD(_, _)
GCD(a, b) == IF b = 0 THEN a ELSE GCD(b, a % b)

\* a number n/d, kept in lowest terms
Frac(n, d) == LET g == GCD(n, d) IN <<n \div g, d \div g>>

Min(a, b) == IF a < b THEN a ELSE b


Zero == Frac(0, 1)

\* the raw question list of a generation response: n questions, the correct
\* option of each decided by the seed
RawQuiz(n, seed) ==
    [i \in 1..n |-> [correct_answer |-> OptionTexts[((i + seed) % 2) + 1]]]

\* what quizAPI.generateQuiz may resolve with: any number of questions, or no
\* question list at all
\* the longest question list of a response: one question more for the first
\* component of LearningSessionSimple.tsx, which keeps no counters
QuestionsAtMost == IF limits.component = First THEN MaxQuestions + 1 ELSE MaxQuestions

WellFormedQuizResponses ==
    {[hasQuestions |-> TRUE, questions |-> RawQuiz(n, seed)] :
        n \in 0..QuestionsAtMost, seed \in Seeds}
        \cup {[hasQuestions |-> FALSE, questions |-> <<>>]}

\* a question of the response that names no correct answer
MalformedQuestion == [correct_answer |-> ""]

\* responses with such a question: alone, or before a well-formed one
MalformedQuizResponses ==
    {[hasQuestions |-> TRUE, questions |-> <<MalformedQuestion>> \o RawQuiz(n, seed)] :
        n \in 0..(MaxQuestions - 1), seed \in Seeds}

QuizResponses ==
    WellFormedQuizResponses
        \cup (IF limits.malformed THEN MalformedQuizResponses ELSE {})

\* sessions as the backend's session history may deliver them; 0 and ""
\* stand for a field the backend left out
RawSessions ==
    { [id |-> 0, session_type |-> "", topic |-> "", status |-> "",
       questions_attempted |-> 0, questions_correct |-> 0, accuracy_rate |-> Zero],
      [id |-> 1, session_type |-> "quiz", topic |-> Topic, status |-> "completed",
       questions_attempted |-> 2, questions_correct |-> 1, accuracy_rate |-> Zero] }

RECURSIVE SeqsUpTo(_, _)
SeqsUpTo(S, n) ==
    IF n = 0 THEN {<<>>}
    ELSE LET shorter == SeqsUpTo(S, n - 1)
         IN shorter \cup {Append(q, x) : q \in shorter, x \in S}

\* what learningAPI.getSessions may resolve with: an array, or a single object
GetSessionsResponses ==
    {[isArray |-> TRUE, data |-> a] : a \in SeqsUpTo(RawSessions, MaxFetched)}
        \cup {[isArray |-> FALSE, data |-> <<r>>] : r \in RawSessions}

-----------------------------------------------------------------------------
(* Pure parts of the handlers *)

\* questionsData.map((q, index) => ({ id: `q_${index}`, ... }))
MapQuestions(raw) ==
    [i \in DOMAIN raw |-> [id |-> i - 1, correct_answer |-> raw[i].correct_answer]]

\* quizData.quiz?.questions || quizData.questions || []
QuestionsData(resp) == IF resp.hasQuestions THEN resp.questions ELSE <<>>

\* currentQuestions.findIndex(q => q.id === currentQuestion?.id), 0-based, -1 if absent
FindIndex(questions, question) ==
    IF question = Null \/ \A i \in DOMAIN questions : questions[i].id # question.id
    THEN -1
    ELSE (CHOOSE i \in DOMAIN questions :
            /\ questions[i].id = question.id
            /\ \A j \in DOMAIN questions : questions[j].id = question.id => i <= j) - 1

\* the session object createNewSession builds
NewSession(id, stype) ==
    [id |-> id, session_type |-> stype, topic |-> Topic, status |-> "active",
     questions_attempted |-> 0, questions_correct |-> 0, accuracy_rate |-> Zero]

\* a comparison that ignores the case of the two texts
IsCorrectAnswerIgnoringCase(selected, question) ==
    LET lower(text) == IF text = "Paris" THEN "paris" ELSE text
    IN lower(selected) = lower(question.correct_answer)

\* selectedAnswer === currentQuestion.correct_answer
IsCorrectAnswer(selected, question) == selected = question.correct_answer

\* updatedSession of handleAnswerSubmit
UpdatedSession(session, correct) ==
    LET inc == IF correct THEN 1 ELSE 0
    IN [session EXCEPT
          !.questions_attempted = session.questions_attempted + 1,
          !.questions_correct = session.questions_correct + inc,
          !.accuracy_rate = Frac((session.questions_correct + inc) * 100,
                                 session.questions_attempted + 1)]

\* prev.map(s => s.id === updated.id ? updated : s)
ReplaceById(list, updated) ==
    [i \in DOMAIN list |-> IF list[i].id = updated.id THEN updated ELSE list[i]]

\* { ...activeSession, status: 'paused' }
PausedSession(session) == [session EXCEPT !.status = "paused"]

\* one element of the array fetchSessions maps; t is Date.now()
FetchedSession(raw, t) ==
    [id |-> IF raw.id # 0 THEN raw.id ELSE t,
     session_type |-> IF raw.session_type # "" THEN raw.session_type ELSE "practice",
     topic |-> IF raw.topic # "" THEN raw.topic ELSE "Mixed Topics",
     status |-> IF raw.status # "" THEN raw.status ELSE "active",
     questions_attempted |-> raw.questions_attempted,
     questions_correct |-> raw.questions_correct,
     accuracy_rate |-> raw.accuracy_rate]

\* the same in LearningSession.tsx, which defaults neither id, kind nor status
LearningSession_FetchedSession(raw) ==
    [id |-> raw.id,
     session_type |-> raw.session_type,
     topic |-> IF raw.topic # "" THEN raw.topic ELSE "Mixed Topics",
     status |-> raw.status,
     questions_attempted |-> raw.questions_attempted,
     questions_correct |-> raw.questions_correct,
     accuracy_rate |-> raw.accuracy_rate]

\* the demo session fetchSessions falls back to
FallbackSession == [NewSession(1, "practice") EXCEPT !.topic = "Mixed Topics"]

\* activeQuizAttempt read as a session by handleQuizRetake: it has none of a
\* session's fields, and its id is no number
AttemptAsSession(attempt) ==
    [id |-> 0, session_type |-> "undefined", topic |-> "undefined", status |-> "undefined",
     questions_attempted |-> 0, questions_correct |-> 0, accuracy_rate |-> Zero]

\* parseInt(activeSession.id) is truthy
IsNumericId(id) == id # 0

-----------------------------------------------------------------------------
(* In-flight calls *)

Pending(r) == BagIn(r, inflight)

Send(r) == inflight (+) SetToBag({r})

Settle(r) == inflight (-) SetToBag({r})

Replace(r, s) == (inflight (-) SetToBag({r})) (+) SetToBag({s})

Requests(op) == {r \in BagToSet(inflight) : r.op = op}

CanSend == BagCardinality(inflight) < limits.inflight

\* Date.now(): a number above every id handed out so far, the backend's small
\* ids included
DateNow ==
    LET used == BackendIds
                 \cup {sessions[i].id : i \in DOMAIN sessions}
                 \cup {r.sessionId : r \in Requests("createSession")}
                 \cup {r.session.id : r \in Requests("generateQuiz/start")}
                 \cup (IF activeSession = Null THEN {} ELSE {activeSession.id})
    IN 1 + CHOOSE m \in used : \A i \in used : i <= m

\* sessions that creations already under way may still add
CreationsUnderWay ==
    LET creating == {r \in BagToSet(inflight) :
                        r.op \in {"generateLesson", "generateQuiz/create", "createSession"}}
    IN BagCardinality([r \in creating |-> inflight[r]])

\* a creation begins while the collection has room for what the creations
\* under way may add; a run with limits.failWhenFull lets it begin anyway
RoomToCreate ==
    limits.failWhenFull \/ Len(sessions) + CreationsUnderWay < limits.sessions

\* the collection has room for one more session next to those whose
\* createSession call is still out; no response that adds past it is drawn
RoomForSession ==
    Len(sessions) + BagCardinality([r \in Requests("createSession") |-> inflight[r]])
        < limits.sessions

-----------------------------------------------------------------------------
(* What the component renders, which decides what the user can click *)

\* if (loading && sessions.length === 0) return <CircularProgress />;
\* if (loading) in the first component
Spinner == loading /\ (Len(sessions) = 0 \/ limits.component = First)

\* {showQuizResults && quizResults && ( <QuizResults ... /> )}
QuizResultsOverlay == showQuizResults /\ quizResults # Null

\* {activeSession && activeSession.session_type === 'quiz' && currentQuestions.length > 0 && ...}
QuizDisplayMounted ==
    /\ limits.component = Simple
    /\ activeSession # Null
    /\ activeSession.session_type = "quiz"
    /\ Len(currentQuestions) > 0

QuizDisplayOverlay == ~Spinner /\ ~QuizResultsOverlay /\ QuizDisplayMounted

CreateDialog ==
    ~Spinner /\ ~QuizResultsOverlay /\ ~QuizDisplayMounted /\ createDialogOpen

MainView ==
    ~Spinner /\ ~QuizResultsOverlay /\ ~QuizDisplayMounted /\ ~createDialogOpen

\* {activeSession && ( ... )}; in LearningSession.tsx {activeSession && currentQuestion ? ( ... ) : ( list )}
SessionView ==
    /\ MainView
    /\ activeSession # Null
    /\ limits.component = Full => currentQuestion # Null

\* {activeSession.session_type === 'lesson' ? ( lesson ) : ( questions )};
\* LearningSession.tsx has no lesson view
LessonView ==
    SessionView /\ limits.component # Full /\ activeSession.session_type = "lesson"

\* {!showResults ? ( question card ) : ( result card )};
\* {currentQuestion && !showResults ? ... : showResults ? ... : 'Loading questions...'}
QuestionCard ==
    /\ SessionView /\ ~LessonView /\ ~showResults
    /\ limits.component = First => currentQuestion # Null

ResultCard == SessionView /\ ~LessonView /\ showResults

\* {!activeSession && ( session list )}
SessionList == MainView /\ ~SessionView

\* the handler or continuation this step ran, and how it ended
Did(what) == last' = what

\* a handler runs when the view offers its control, or when it is called
\* directly, which the run allows limits.direct times
Invoke(view) ==
    /\ view \/ directCalls < limits.direct
    /\ directCalls' = IF view THEN directCalls ELSE directCalls + 1
    /\ UNCHANGED limits

\* QuizDisplay is unmounted, and its state lost, whenever its overlay is not rendered
QuizDisplayInitial == currentQuestionIndex' = 0 /\ selectedAnswers' = <<>>

QuizDisplayKept ==
    IF /\ activeSession' # Null
       /\ activeSession'.session_type = "quiz"
       /\ Len(currentQuestions') > 0
    THEN UNCHANGED <<currentQuestionIndex, selectedAnswers>>
    ELSE QuizDisplayInitial

-----------------------------------------------------------------------------
(* Initial state: the component has mounted and its effect has called           *)
(* fetchSessions, which has set loading and awaits learningAPI.getSessions().   *)

InitState ==
    /\ sessions = <<>>
    /\ activeSession = Null
    /\ currentQuestion = Null
    /\ currentQuestions = <<>>
    /\ selectedAnswer = ""
    /\ showResults = FALSE
    /\ loading = TRUE
    /\ error = ""
    /\ activeQuizAttempt = Null
    /\ createDialogOpen = FALSE
    /\ showQuizResults = FALSE
    /\ quizResults = Null
    /\ currentQuestionIndex = 0
    /\ selectedAnswers = <<>>
    /\ inflight = SetToBag({[op |-> "getSessions"]})
    /\ last = "mount"

\* the slices explored: several sessions with one call in flight; one
\* session of any kind the dialog offers with several calls in flight; and
\* one practice session next to which a creation may begin, and fail; and one
\* practice session whose generated questions may be malformed
Profiles ==
    {[component |-> Simple, sessions |-> MaxSessions, inflight |-> 1, direct |-> 0,
      types |-> SessionTypes \ {"review"}, failWhenFull |-> FALSE, malformed |-> FALSE],
     [component |-> Simple, sessions |-> 1, inflight |-> MaxInflight, direct |-> 0,
      types |-> SessionTypes, failWhenFull |-> FALSE, malformed |-> FALSE],
     [component |-> Simple, sessions |-> 1, inflight |-> MaxInflight, direct |-> 0,
      types |-> {"practice"}, failWhenFull |-> TRUE, malformed |-> FALSE],
     [component |-> Simple, sessions |-> 1, inflight |-> 1, direct |-> 0,
      types |-> {"practice"}, failWhenFull |-> FALSE, malformed |-> TRUE]}

DirectProfiles ==
    {[component |-> Simple, sessions |-> 1, inflight |-> 1, direct |-> MaxDirectCalls,
      types |-> SessionTypes, failWhenFull |-> FALSE, malformed |-> FALSE]}

\* each version of the component, one session at a time, and part_002 with a
\* lesson created next to a session of the backend's history
VariantProfiles ==
    {[component |-> c, sessions |-> 1, inflight |-> 1, direct |-> 0,
      types |-> SessionTypes, failWhenFull |-> FALSE, malformed |-> FALSE] : c \in {Simple, Full, Older}}
        \cup {[component |-> Older, sessions |-> MaxSessions, inflight |-> 1, direct |-> 0,
                types |-> {"lesson"}, failWhenFull |-> FALSE, malformed |-> FALSE],
              [component |-> First, sessions |-> MaxSessions + 1, inflight |-> 1, direct |-> 0,
                types |-> {"lesson", "quiz"}, failWhenFull |-> FALSE, malformed |-> FALSE]}

\* the first component starts from the demo sessions its effect sets, and
\* fetches nothing; its session objects have no counters, which stay 0 here
First_InitState ==
    /\ sessions = <<[NewSession(1, "lesson") EXCEPT !.topic = "Linear Algebra"],
                    [NewSession(2, "quiz") EXCEPT !.topic = "Machine Learning"]>>
    /\ activeSession = Null
    /\ currentQuestion = Null
    /\ currentQuestions = <<>>
    /\ selectedAnswer = ""
    /\ showResults = FALSE
    /\ loading = FALSE
    /\ error = ""
    /\ activeQuizAttempt = Null
    /\ createDialogOpen = FALSE
    /\ showQuizResults = FALSE
    /\ quizResults = Null
    /\ currentQuestionIndex = 0
    /\ selectedAnswers = <<>>
    /\ inflight = EmptyBag
    /\ last = "mount"

Init == limits \in Profiles /\ directCalls = 0 /\ InitState

InitDirect == limits \in DirectProfiles /\ directCalls = 0 /\ InitState

InitVariants ==
    /\ limits \in VariantProfiles
    /\ directCalls = 0
    /\ IF limits.component = First THEN First_InitState ELSE InitState

-----------------------------------------------------------------------------
(* fetchSessions *)

\* response.data.map(...) / [ { ...single session } ]; every Date.now() of one
\* pass over the array reads the same clock
FetchedSessions(resp, t) ==
    [i \in DOMAIN resp.data |->
        IF limits.component = Full THEN LearningSession_FetchedSession(resp.data[i])
        ELSE FetchedSession(resp.data[i], t)]

fetchSessions_resolved ==
    \E resp \in GetSessionsResponses :
        /\ Pending([op |-> "getSessions"])
        /\ inflight' = Settle([op |-> "getSessions"])
        /\ sessions' = FetchedSessions(resp, DateNow)
        /\ loading' = FALSE
        /\ Did("fetchSessions")
        /\ UNCHANGED setup
        /\ UNCHANGED <<activeSession, currentQuestion, currentQuestions,
                       selectedAnswer, showResults, error, activeQuizAttempt,
                       createDialogOpen, showQuizResults, quizResults>>
        /\ QuizDisplayKept

fetchSessions_rejected ==
    /\ Pending([op |-> "getSessions"])
    /\ inflight' = Settle([op |-> "getSessions"])
    /\ sessions' = <<FallbackSession>>
    /\ loading' = FALSE
    /\ Did("fetchSessions/failed")
    /\ UNCHANGED setup
    /\ UNCHANGED <<activeSession, currentQuestion, currentQuestions,
                   selectedAnswer, showResults, error, activeQuizAttempt,
                   createDialogOpen, showQuizResults, quizResults>>
    /\ QuizDisplayKept

-----------------------------------------------------------------------------
(* The create dialog *)

openCreateDialog ==
    /\ SessionList
    /\ ~createDialogOpen
    /\ createDialogOpen' = TRUE
    /\ Did("")
    /\ UNCHANGED setup
    /\ UNCHANGED <<sessions, activeSession, currentQuestion, currentQuestions,
                   selectedAnswer, showResults, loading, error,
                   activeQuizAttempt, showQuizResults, quizResults,
                   currentQuestionIndex, selectedAnswers, inflight>>

cancelCreateDialog ==
    /\ CreateDialog
    /\ createDialogOpen' = FALSE
    /\ Did("")
    /\ UNCHANGED setup
    /\ UNCHANGED <<sessions, activeSession, currentQuestion, currentQuestions,
                   selectedAnswer, showResults, loading, error,
                   activeQuizAttempt, showQuizResults, quizResults,
                   currentQuestionIndex, selectedAnswers, inflight>>

\* <Snackbar open={!!error} autoHideDuration={6000} onClose={() => setError('')}>
dismissError ==
    /\ error # ""
    /\ error' = ""
    /\ Did("")
    /\ UNCHANGED setup
    /\ UNCHANGED <<sessions, activeSession, currentQuestion, currentQuestions,
                   selectedAnswer, showResults, loading,
                   activeQuizAttempt, createDialogOpen, showQuizResults, quizResults,
                   currentQuestionIndex, selectedAnswers, inflight>>

-----------------------------------------------------------------------------
(* createNewSession *)

\* up to the first await: setLoading(true), then the generation request
createNewSession ==
    \E stype \in limits.types :
        /\ limits.component = Simple
        /\ Invoke(CreateDialog)
        /\ CanSend
        /\ RoomToCreate
        /\ loading' = TRUE
        /\ inflight' = Send(IF stype = "lesson"
                            THEN [op |-> "generateLesson"]
                            ELSE [op |-> "generateQuiz/create", session_type |-> stype])
        /\ Did("createNewSession")
        /\ UNCHANGED <<sessions, activeSession, currentQuestion, currentQuestions,
                       selectedAnswer, showResults, error, activeQuizAttempt,
                       createDialogOpen, showQuizResults, quizResults,
                       currentQuestionIndex, selectedAnswers>>

\* a creation that replaces the collection by the new session
AddAndActivateAlone(newSession) ==
    /\ sessions' = <<newSession>>
    /\ activeSession' = newSession
    /\ createDialogOpen' = FALSE
    /\ loading' = FALSE

\* setSessions(prev => [newSession, ...prev]); setActiveSession(newSession);
\* setCreateDialogOpen(false); finally setLoading(false)
AddAndActivate(newSession) ==
    /\ sessions' = <<newSession>> \o sessions
    /\ activeSession' = newSession
    /\ createDialogOpen' = FALSE
    /\ loading' = FALSE

\* a catch that swallows the failure of the creation
CreateFailedSilently ==
    /\ loading' = FALSE
    /\ UNCHANGED <<error, sessions, activeSession, currentQuestion, currentQuestions,
                   createDialogOpen>>

\* catch: setError(...); finally setLoading(false)
CreateFailed ==
    /\ error' = CreateError
    /\ loading' = FALSE
    /\ UNCHANGED <<sessions, activeSession, currentQuestion, currentQuestions,
                   createDialogOpen>>

\* lessonAPI.generateLesson resolved; lessonId = 0 when the response names no id
createNewSession_lessonGenerated ==
    \E lessonId \in BackendIds \cup {0} :
        /\ limits.component = Simple
        /\ Pending([op |-> "generateLesson"])
        /\ RoomForSession
        /\ inflight' = Settle([op |-> "generateLesson"])
        /\ AddAndActivate(NewSession(IF lessonId # 0 THEN lessonId ELSE DateNow, "lesson"))
        /\ Did("createNewSession/created")
        /\ UNCHANGED setup
        /\ UNCHANGED <<currentQuestion, currentQuestions, selectedAnswer,
                       showResults, error, activeQuizAttempt,
                       showQuizResults, quizResults>>
        /\ QuizDisplayKept

createNewSession_lessonRejected ==
    /\ limits.component = Simple
    /\ Pending([op |-> "generateLesson"])
    /\ inflight' = Settle([op |-> "generateLesson"])
    /\ CreateFailed
    /\ Did("createNewSession/generationFailed")
    /\ UNCHANGED setup
    /\ UNCHANGED <<selectedAnswer, showResults, activeQuizAttempt,
                   showQuizResults, quizResults>>
    /\ QuizDisplayKept

\* quizAPI.generateQuiz resolved: an empty list throws, otherwise the questions
\* are mapped and learningAPI.createSession is requested
createNewSession_quizGenerated ==
    \E r \in Requests("generateQuiz/create"), resp \in QuizResponses :
        LET questionsData == QuestionsData(resp)
        IN /\ limits.component = Simple
           /\ IF Len(questionsData) = 0
              THEN /\ inflight' = Settle(r)
                   /\ CreateFailed
                   /\ Did("createNewSession/generationFailed")
                   /\ UNCHANGED <<selectedAnswer, showResults, activeQuizAttempt,
                                  showQuizResults, quizResults>>
                   /\ QuizDisplayKept
              ELSE /\ RoomForSession
                   /\ inflight' = Replace(r, [op |-> "createSession",
                                              session_type |-> r.session_type,
                                              questions |-> MapQuestions(questionsData),
                                              sessionId |-> DateNow])
                   /\ Did("createNewSession/generated")
                   /\ UNCHANGED <<controllerVars, currentQuestionIndex, selectedAnswers>>
           /\ UNCHANGED setup

createNewSession_quizRejected ==
    \E r \in Requests("generateQuiz/create") :
        /\ limits.component = Simple
        /\ inflight' = Settle(r)
        /\ CreateFailed
        /\ Did("createNewSession/generationFailed")
        /\ UNCHANGED setup
        /\ UNCHANGED <<selectedAnswer, showResults, activeQuizAttempt,
                       showQuizResults, quizResults>>
        /\ QuizDisplayKept

\* the rest of createNewSession once the session id is decided
FinishCreate(r, id) ==
    /\ inflight' = Settle(r)
    /\ currentQuestions' = r.questions
    /\ currentQuestion' = r.questions[1]
    /\ AddAndActivate(NewSession(id, r.session_type))
    /\ UNCHANGED <<selectedAnswer, showResults, error,
                   activeQuizAttempt, showQuizResults, quizResults>>
    /\ QuizDisplayKept

\* sessionId = sessionResponse.data.id || sessionId
createNewSession_sessionCreated ==
    \E r \in Requests("createSession"), remoteId \in BackendIds \cup {0} :
        /\ limits.component = Simple
        /\ FinishCreate(r, IF remoteId # 0 THEN remoteId ELSE r.sessionId)
        /\ Did("createNewSession/created")
        /\ UNCHANGED setup

\* catch (sessionError): console.warn, the local id stays
createNewSession_sessionRejected ==
    \E r \in Requests("createSession") :
        /\ limits.component = Simple
        /\ FinishCreate(r, r.sessionId)
        /\ Did("createNewSession/createdLocally")
        /\ UNCHANGED setup

-----------------------------------------------------------------------------
(* Answering *)

\* <RadioGroup value={selectedAnswer} onChange={(e) => setSelectedAnswer(e.target.value)}>
\* over currentQuestion?.options
setSelectedAnswer ==
    \E i \in DOMAIN OptionTexts :
        /\ Invoke(QuestionCard /\ currentQuestion # Null)
        /\ selectedAnswer' = OptionTexts[i]
        /\ Did("")
        /\ UNCHANGED <<sessions, activeSession, currentQuestion, currentQuestions,
                       showResults, loading, error, activeQuizAttempt,
                       createDialogOpen, showQuizResults, quizResults,
                       currentQuestionIndex, selectedAnswers, inflight>>

\* the calls handleAnswerSubmit awaits one after the other once the state is set:
\* submitQuiz if there is a quiz attempt, then logInteraction if the id is a number
FirstLogCall(attempt, session) ==
    IF limits.component = Full THEN {[op |-> "logInteraction"]}
    ELSE IF attempt # Null /\ attempt.hasId
    THEN {[op |-> "submitQuiz/answer", thenLog |-> IsNumericId(session.id)]}
    ELSE IF IsNumericId(session.id) THEN {[op |-> "logInteraction"]} ELSE {}

\* <Button onClick={handleAnswerSubmit} disabled={!selectedAnswer}>
SubmitButton == QuestionCard /\ selectedAnswer # ""

\* if (!currentQuestion || !selectedAnswer || !activeSession) return;
handleAnswerSubmit ==
    /\ limits.component # First
    /\ Invoke(SubmitButton)
    /\ IF currentQuestion = Null \/ selectedAnswer = "" \/ activeSession = Null
       THEN /\ Did("handleAnswerSubmit/returned")
            /\ UNCHANGED <<controllerVars, currentQuestionIndex, selectedAnswers,
                           inflight>>
       ELSE /\ activeSession.questions_attempted < MaxAttempted
            /\ LET correct == IsCorrectAnswer(selectedAnswer, currentQuestion)
                   updatedSession == UpdatedSession(activeSession, correct)
                   calls == FirstLogCall(activeQuizAttempt, activeSession)
               IN /\ calls # {} => CanSend
                  /\ showResults' = TRUE
                  /\ activeSession' = updatedSession
                  /\ sessions' = ReplaceById(sessions, updatedSession)
                  /\ inflight' = inflight (+) SetToBag(calls)
            /\ Did("handleAnswerSubmit")
            /\ UNCHANGED <<currentQuestion, currentQuestions, selectedAnswer, loading,
                           error, activeQuizAttempt, createDialogOpen, showQuizResults,
                           quizResults, currentQuestionIndex, selectedAnswers>>

\* a resolved or rejected per-answer submitQuiz: the rejection is caught and
\* logged to the console, and logInteraction follows either way
handleAnswerSubmit_quizSubmitted ==
    \E r \in Requests("submitQuiz/answer"), ok \in BOOLEAN :
        /\ inflight' = IF r.thenLog /\ (ok \/ limits.component = Simple)
                       THEN Replace(r, [op |-> "logInteraction"])
                       ELSE Settle(r)
        /\ Did(IF ok THEN "handleAnswerSubmit/quizSubmitted" ELSE "handleAnswerSubmit/quizSubmitFailed")
        /\ UNCHANGED setup
        /\ UNCHANGED <<controllerVars, currentQuestionIndex, selectedAnswers>>

\* a catch that reports the failed logging to the user
LogInteractionFailedReported ==
    /\ error' = "Failed to log interaction"
    /\ UNCHANGED <<sessions, activeSession, currentQuestion, currentQuestions,
                   selectedAnswer, showResults, loading,
                   activeQuizAttempt, createDialogOpen, showQuizResults, quizResults>>

\* catch (interactionError) { console.warn('Interaction logging failed, continuing:', ...); }
LogInteractionFailed == UNCHANGED controllerVars

\* a resolved or rejected logInteraction
handleAnswerSubmit_logged ==
    \E r \in Requests("logInteraction"), ok \in BOOLEAN :
        /\ inflight' = Settle(r)
        /\ IF ok THEN UNCHANGED controllerVars ELSE LogInteractionFailed
        /\ Did(IF ok THEN "handleAnswerSubmit/logged" ELSE "handleAnswerSubmit/logFailed")
        /\ UNCHANGED setup
        /\ UNCHANGED <<currentQuestionIndex, selectedAnswers>>

-----------------------------------------------------------------------------
(* Advancing *)

\* the else branch of handleNextQuestion after its submitQuiz
SessionFinished ==
    /\ currentQuestion' = Null
    /\ activeSession' = Null
    /\ currentQuestions' = <<>>
    /\ activeQuizAttempt' = Null
    /\ UNCHANGED <<sessions, selectedAnswer, showResults, loading,
                   error, createDialogOpen, showQuizResults, quizResults>>
    /\ QuizDisplayKept

\* setCurrentQuestion(...); setSelectedAnswer(''); setShowResults(false);
ShowQuestion(question) ==
    /\ currentQuestion' = question
    /\ selectedAnswer' = ""
    /\ showResults' = FALSE

\* if (!activeSession || !currentQuestions.length) return;
handleNextQuestion ==
    /\ limits.component # First
    /\ Invoke(ResultCard)
    /\ LET currentIndex == FindIndex(currentQuestions, currentQuestion)
       IN IF activeSession = Null \/ Len(currentQuestions) = 0
          THEN /\ Did("handleNextQuestion/returned")
               /\ UNCHANGED <<controllerVars, currentQuestionIndex, selectedAnswers,
                              inflight>>
          ELSE IF currentIndex < Len(currentQuestions) - 1
          THEN /\ ShowQuestion(currentQuestions[currentIndex + 2])
               /\ Did("handleNextQuestion/next")
               /\ UNCHANGED <<sessions, activeSession, currentQuestions, loading, error, activeQuizAttempt, createDialogOpen,
                              showQuizResults, quizResults, currentQuestionIndex,
                              selectedAnswers, inflight>>
          ELSE IF activeQuizAttempt # Null /\ activeQuizAttempt.hasId
               THEN /\ CanSend
                    /\ inflight' = Send([op |-> "submitQuiz/complete"])
                    /\ Did("handleNextQuestion/completing")
                    /\ UNCHANGED <<controllerVars, currentQuestionIndex,
                                   selectedAnswers>>
               ELSE /\ SessionFinished
                    /\ Did("handleNextQuestion/finished")
                    /\ UNCHANGED inflight

\* the final submitQuiz resolved, or rejected and caught
handleNextQuestion_quizSubmitted ==
    \E r \in Requests("submitQuiz/complete") :
        /\ inflight' = Settle(r)
        /\ SessionFinished
        /\ Did("handleNextQuestion/finished")
        /\ UNCHANGED setup

-----------------------------------------------------------------------------
(* Starting or resuming a session of the list *)

\* the button of a session card: none for a completed session
StartButton(session) == session.status # "completed"

startSession ==
    \E i \in DOMAIN sessions :
        /\ limits.component \in {Simple, Older}
        /\ Invoke(SessionList /\ StartButton(sessions[i]))
        /\ CanSend
        /\ loading' = TRUE
        /\ inflight' = Send([op |-> "generateQuiz/start", session |-> sessions[i]])
        /\ Did("startSession")
        /\ UNCHANGED <<sessions, activeSession, currentQuestion, currentQuestions,
                       selectedAnswer, showResults, error, activeQuizAttempt,
                       createDialogOpen, showQuizResults, quizResults,
                       currentQuestionIndex, selectedAnswers>>

StartFailed ==
    /\ error' = StartError
    /\ loading' = FALSE
    /\ UNCHANGED <<sessions, activeSession, currentQuestion, currentQuestions,
                   selectedAnswer, showResults, activeQuizAttempt,
                   createDialogOpen, showQuizResults, quizResults>>
    /\ QuizDisplayKept

startSession_generated ==
    \E r \in Requests("generateQuiz/start"), resp \in QuizResponses :
        LET questionsData == QuestionsData(resp)
            questions == MapQuestions(questionsData)
        IN /\ limits.component = Simple
           /\ inflight' = Settle(r)
           /\ IF Len(questionsData) = 0
              THEN /\ StartFailed
                   /\ Did("startSession/generationFailed")
                   /\ UNCHANGED setup
              ELSE /\ activeQuizAttempt' = [hasId |-> TRUE, questions |-> questions]
                   /\ currentQuestions' = questions
                   /\ activeSession' = r.session
                   /\ currentQuestion' = questions[1]
                   /\ selectedAnswer' = ""
                   /\ showResults' = FALSE
                   /\ loading' = FALSE
                   /\ Did("startSession/started")
                   /\ UNCHANGED setup
                   /\ UNCHANGED <<sessions, error, createDialogOpen,
                                  showQuizResults, quizResults>>
                   /\ QuizDisplayKept

startSession_rejected ==
    \E r \in Requests("generateQuiz/start") :
        /\ limits.component \in {Simple, Older}
        /\ inflight' = Settle(r)
        /\ StartFailed
        /\ Did("startSession/generationFailed")
        /\ UNCHANGED setup

-----------------------------------------------------------------------------
(* Pausing and leaving *)

pauseSession ==
    /\ limits.component # First
    /\ Invoke(QuestionCard)
    /\ activeSession # Null
    /\ sessions' = ReplaceById(sessions, PausedSession(activeSession))
    /\ activeSession' = Null
    /\ currentQuestion' = Null
    /\ activeQuizAttempt' = Null
    /\ Did("pauseSession")
    /\ UNCHANGED <<currentQuestions, selectedAnswer, showResults, loading, error, createDialogOpen, showQuizResults, quizResults,
                   inflight>>
    /\ QuizDisplayKept

\* the Complete Lesson button: setActiveSession(null)
completeLesson ==
    /\ LessonView
    /\ activeSession' = Null
    /\ Did("completeLesson")
    /\ UNCHANGED setup
    /\ UNCHANGED <<sessions, currentQuestion, currentQuestions, selectedAnswer,
                   showResults, loading, error, activeQuizAttempt,
                   createDialogOpen, showQuizResults, quizResults, inflight>>
    /\ QuizDisplayKept

-----------------------------------------------------------------------------
(* QuizDisplay, rendered over the view for a session of kind quiz *)

\* selectedAnswers[question.id], '' when there is none
AnswerOf(answers, question) ==
    IF question.id \in DOMAIN answers THEN answers[question.id] ELSE ""

\* { ...prev, [currentQuestion.id]: answer }
WithAnswer(answers, question, answer) ==
    [id \in DOMAIN answers \cup {question.id} |->
        IF id = question.id THEN answer ELSE answers[id]]

\* questions.filter(q => selectedAnswers[q.id] === q.correct_answer.toString()).length
CorrectAnswers(questions, answers) ==
    Cardinality({i \in DOMAIN questions :
                    AnswerOf(answers, questions[i]) = questions[i].correct_answer})

\* the results object handed to onComplete
QuizResult(questions, answers) ==
    [totalQuestions |-> Len(questions),
     correctAnswers |-> CorrectAnswers(questions, answers),
     accuracy |-> Frac(CorrectAnswers(questions, answers) * 100, Len(questions))]

\* questions[currentQuestionIndex]
QuizDisplayQuestion == currentQuestions[currentQuestionIndex + 1]

\* QuizDisplay can render: its index is inside the question list it was given
QuizDisplayAlive == QuizDisplayMounted /\ currentQuestionIndex < Len(currentQuestions)

QuizDisplay_handleAnswerSelect ==
    \E i \in DOMAIN OptionTexts :
        /\ QuizDisplayAlive
        /\ QuizDisplayOverlay
        /\ selectedAnswers' = WithAnswer(selectedAnswers, QuizDisplayQuestion, OptionTexts[i])
        /\ Did("")
        /\ UNCHANGED setup
        /\ UNCHANGED <<controllerVars, currentQuestionIndex, inflight>>

QuizDisplay_handlePreviousQuestion ==
    /\ QuizDisplayAlive
    /\ QuizDisplayOverlay
    /\ currentQuestionIndex > 0
    /\ currentQuestionIndex' = currentQuestionIndex - 1
    /\ Did("")
    /\ UNCHANGED setup
    /\ UNCHANGED <<controllerVars, selectedAnswers, inflight>>

\* handleQuizComplete of the controller, QuizDisplay's onComplete
handleQuizComplete(results) ==
    /\ quizResults' = results
    /\ showQuizResults' = TRUE
    /\ activeSession' = Null
    /\ currentQuestions' = <<>>
    /\ currentQuestion' = Null
    /\ activeQuizAttempt' = Null
    /\ UNCHANGED <<sessions, selectedAnswer, showResults, loading,
                   error, createDialogOpen, inflight>>
    /\ QuizDisplayInitial

\* a Next button that is never disabled
QuizDisplay_NextButtonAlways == TRUE

\* <Button onClick={handleNextQuestion} disabled={!selectedAnswers[currentQuestion.id]}>
QuizDisplay_NextButton == AnswerOf(selectedAnswers, QuizDisplayQuestion) # ""

\* the Next button is disabled until the current question has an answer
QuizDisplay_handleNextQuestion ==
    /\ QuizDisplayAlive
    /\ QuizDisplayOverlay /\ QuizDisplay_NextButton
    /\ IF currentQuestionIndex < Len(currentQuestions) - 1
       THEN /\ currentQuestionIndex' = currentQuestionIndex + 1
            /\ Did("")
            /\ UNCHANGED setup
            /\ UNCHANGED <<controllerVars, selectedAnswers, inflight>>
       ELSE /\ handleQuizComplete(QuizResult(currentQuestions, selectedAnswers))
            /\ Did("handleQuizComplete")
            /\ UNCHANGED setup

\* QuizDisplay's and QuizResults' onClose
handleQuizClose ==
    /\ limits.component = Simple
    /\ Invoke((QuizDisplayOverlay /\ QuizDisplayAlive) \/ (~Spinner /\ QuizResultsOverlay))
    /\ showQuizResults' = FALSE
    /\ quizResults' = Null
    /\ activeSession' = Null
    /\ currentQuestions' = <<>>
    /\ currentQuestion' = Null
    /\ activeQuizAttempt' = Null
    /\ Did("handleQuizClose")
    /\ UNCHANGED <<sessions, selectedAnswer, showResults, loading,
                   error, createDialogOpen, inflight>>
    /\ QuizDisplayInitial

\* QuizResults' onRetake
handleQuizRetake ==
    /\ limits.component = Simple
    /\ Invoke(~Spinner /\ QuizResultsOverlay)
    /\ showQuizResults' = FALSE
    /\ quizResults' = Null
    /\ IF activeQuizAttempt # Null
       THEN /\ currentQuestions' = activeQuizAttempt.questions
            /\ currentQuestion' = IF Len(activeQuizAttempt.questions) > 0
                                  THEN activeQuizAttempt.questions[1] ELSE Null
            /\ activeSession' = AttemptAsSession(activeQuizAttempt)
       ELSE UNCHANGED <<currentQuestions, currentQuestion, activeSession>>
    /\ Did("handleQuizRetake")
    /\ UNCHANGED <<sessions, selectedAnswer, showResults, loading,
                   error, activeQuizAttempt, createDialogOpen, inflight>>
    /\ QuizDisplayKept

-----------------------------------------------------------------------------
(* part_002, an older version of the component: no lesson generation, no    *)
(* QuizDisplay, and a createSession failure that aborts the creation         *)

part_002_createNewSession ==
    \E stype \in limits.types :
        /\ limits.component = Older
        /\ Invoke(CreateDialog)
        /\ CanSend
        /\ RoomToCreate
        /\ loading' = TRUE
        /\ inflight' = Send([op |-> "generateQuiz/create", session_type |-> stype])
        /\ Did("createNewSession")
        /\ UNCHANGED <<sessions, activeSession, currentQuestion, currentQuestions,
                       selectedAnswer, showResults, error, activeQuizAttempt,
                       createDialogOpen, showQuizResults, quizResults,
                       currentQuestionIndex, selectedAnswers>>

\* quizData.questions.map(...): a response without a question list throws, an
\* empty list does not; then learningAPI.createSession is awaited
part_002_createNewSession_quizGenerated ==
    \E r \in Requests("generateQuiz/create"), resp \in QuizResponses :
        /\ limits.component = Older
        /\ IF ~resp.hasQuestions
           THEN /\ inflight' = Settle(r)
                /\ CreateFailed
                /\ Did("createNewSession/generationFailed")
                /\ UNCHANGED <<selectedAnswer, showResults, activeQuizAttempt,
                               showQuizResults, quizResults>>
                /\ QuizDisplayKept
           ELSE /\ inflight' = Replace(r, [op |-> "createSession",
                                           session_type |-> r.session_type,
                                           questions |-> MapQuestions(resp.questions),
                                           sessionId |-> 0])
                /\ Did("createNewSession/generated")
                /\ UNCHANGED <<controllerVars, currentQuestionIndex, selectedAnswers>>
        /\ UNCHANGED setup

part_002_createNewSession_quizRejected ==
    \E r \in Requests("generateQuiz/create") :
        /\ limits.component = Older
        /\ inflight' = Settle(r)
        /\ CreateFailed
        /\ Did("createNewSession/generationFailed")
        /\ UNCHANGED setup
        /\ UNCHANGED <<selectedAnswer, showResults, activeQuizAttempt,
                       showQuizResults, quizResults>>
        /\ QuizDisplayKept

\* the rest of createNewSession after createSession resolved:
\* if (questions.length > 0) setCurrentQuestion(questions[0])
ActivateCreated(r, id) ==
    /\ inflight' = Settle(r)
    /\ currentQuestions' = r.questions
    /\ currentQuestion' = IF Len(r.questions) > 0 THEN r.questions[1] ELSE currentQuestion
    /\ AddAndActivate(NewSession(id, r.session_type))
    /\ UNCHANGED <<selectedAnswer, showResults, error,
                   activeQuizAttempt, showQuizResults, quizResults>>
    /\ QuizDisplayKept

\* id: sessionResponse.data.id || Date.now().toString()
part_002_createNewSession_sessionCreated ==
    \E r \in Requests("createSession"), remoteId \in BackendIds \cup {0} :
        /\ limits.component = Older
        /\ ActivateCreated(r, IF remoteId # 0 THEN remoteId ELSE DateNow)
        /\ Did("createNewSession/created")
        /\ UNCHANGED setup

\* the rejection of createSession reaches the catch of createNewSession
CreateSessionRejected(r) ==
    /\ inflight' = Settle(r)
    /\ CreateFailed
    /\ UNCHANGED <<selectedAnswer, showResults, activeQuizAttempt,
                   showQuizResults, quizResults>>
    /\ QuizDisplayKept

part_002_createNewSession_sessionRejected ==
    \E r \in Requests("createSession") :
        /\ limits.component = Older
        /\ CreateSessionRejected(r)
        /\ Did("createNewSession/sessionFailed")
        /\ UNCHANGED setup

\* setActiveQuizAttempt({ id: quizData.quiz_id, ...quizData }): the response
\* may name no quiz_id; an empty list leaves questions[0] undefined
part_002_startSession_generated ==
    \E r \in Requests("generateQuiz/start"), resp \in QuizResponses, hasId \in BOOLEAN :
        LET questions == MapQuestions(resp.questions)
        IN /\ limits.component = Older
           /\ inflight' = Settle(r)
           /\ IF ~resp.hasQuestions
              THEN /\ StartFailed
                   /\ Did("startSession/generationFailed")
              ELSE /\ activeQuizAttempt' = [hasId |-> hasId, questions |-> questions]
                   /\ currentQuestions' = questions
                   /\ activeSession' = r.session
                   /\ currentQuestion' = IF Len(questions) > 0 THEN questions[1] ELSE Null
                   /\ selectedAnswer' = ""
                   /\ showResults' = FALSE
                   /\ loading' = FALSE
                   /\ Did("startSession/started")
                   /\ UNCHANGED <<sessions, error, createDialogOpen,
                                  showQuizResults, quizResults>>
                   /\ QuizDisplayKept
           /\ UNCHANGED setup

\* sessions.find(s => s.session_type === 'quiz' && s.topic === activeSession.topic && ...)
RelatedQuiz(list, session) ==
    LET found == {i \in DOMAIN list :
                     list[i].session_type = "quiz" /\ list[i].topic = session.topic}
    IN IF found = {} THEN Null
       ELSE list[CHOOSE i \in found : \A j \in found : i <= j]

\* the Complete Lesson & Take Quiz button of the lesson view
part_002_completeLessonTakeQuiz ==
    /\ limits.component = Older
    /\ LessonView
    /\ activeSession' = RelatedQuiz(sessions, activeSession)
    /\ Did("completeLesson/takeQuiz")
    /\ UNCHANGED setup
    /\ UNCHANGED <<sessions, currentQuestion, currentQuestions, selectedAnswer,
                   showResults, loading, error, activeQuizAttempt,
                   createDialogOpen, showQuizResults, quizResults, inflight>>
    /\ QuizDisplayKept

-----------------------------------------------------------------------------
(* LearningSession.tsx: questions from aiQuizGenerator, which needs no       *)
(* network and never fails                                                    *)

\* aiQuizGenerator.generateQuiz: request.numQuestions questions, the correct
\* answer of each a key drawn at random
AIQuizzes ==
    LET n == Min(NumQuestionsRequested, MaxQuestions)
    IN {[i \in 1..n |-> [id |-> i - 1, correct_answer |-> OptionKeys[keys[i]]]] :
           keys \in [1..n -> DOMAIN OptionKeys]}

LearningSession_createNewSession ==
    \E stype \in limits.types, questions \in AIQuizzes :
        /\ limits.component = Full
        /\ Invoke(CreateDialog)
        /\ CanSend
        /\ RoomToCreate
        /\ loading' = TRUE
        /\ inflight' = Send([op |-> "createSession", session_type |-> stype,
                             questions |-> questions, sessionId |-> 0])
        /\ Did("createNewSession")
        /\ UNCHANGED <<sessions, activeSession, currentQuestion, currentQuestions,
                       selectedAnswer, showResults, error, activeQuizAttempt,
                       createDialogOpen, showQuizResults, quizResults,
                       currentQuestionIndex, selectedAnswers>>

\* id: Date.now()
LearningSession_createNewSession_sessionCreated ==
    \E r \in Requests("createSession") :
        /\ limits.component = Full
        /\ ActivateCreated(r, DateNow)
        /\ Did("createNewSession/created")
        /\ UNCHANGED setup

LearningSession_createNewSession_sessionRejected ==
    \E r \in Requests("createSession") :
        /\ limits.component = Full
        /\ CreateSessionRejected(r)
        /\ Did("createNewSession/sessionFailed")
        /\ UNCHANGED setup

\* the Continue or Resume button: only for status active or paused
LearningSession_StartButton(session) == session.status \in {"active", "paused"}

\* generateQuestionsForSession runs to its end without waiting for the network
LearningSession_startSession ==
    \E i \in DOMAIN sessions, questions \in AIQuizzes :
        /\ limits.component = Full
        /\ Invoke(SessionList /\ LearningSession_StartButton(sessions[i]))
        /\ currentQuestions' = questions
        /\ activeSession' = sessions[i]
        /\ currentQuestion' = questions[1]
        /\ selectedAnswer' = ""
        /\ showResults' = FALSE
        /\ loading' = FALSE
        /\ Did("startSession/started")
        /\ UNCHANGED <<sessions, error, activeQuizAttempt, createDialogOpen,
                       showQuizResults, quizResults, inflight>>
        /\ QuizDisplayKept

-----------------------------------------------------------------------------
(* The first component of LearningSessionSimple.tsx: a session becomes       *)
(* active the moment its card is clicked, answers are shown but not counted  *)

\* setCurrentQuestions(response.data.questions): the questions as the backend
\* sent them, with the ids it gave them or, -1, with no id at all
First_Questions(raw, hasIds) ==
    [i \in DOMAIN raw |-> [id |-> IF hasIds THEN i - 1 ELSE -1,
                           correct_answer |-> raw[i].correct_answer]]

First_CreateError == "Failed to create AI session. Please try again."

First_createNewSession ==
    \E stype \in limits.types :
        /\ limits.component = First
        /\ Invoke(CreateDialog)
        /\ CanSend
        /\ RoomToCreate
        /\ loading' = TRUE
        /\ inflight' = Send(IF stype = "lesson"
                            THEN [op |-> "generateLesson"]
                            ELSE [op |-> "generateQuiz/create", session_type |-> stype])
        /\ Did("createNewSession")
        /\ UNCHANGED <<sessions, activeSession, currentQuestion, currentQuestions,
                       selectedAnswer, showResults, error, activeQuizAttempt,
                       createDialogOpen, showQuizResults, quizResults,
                       currentQuestionIndex, selectedAnswers>>

\* if (response.data) { ... }; setCreateDialogOpen(false); finally setLoading(false)
First_createNewSession_lessonGenerated ==
    \E hasData \in BOOLEAN :
        /\ limits.component = First
        /\ Pending([op |-> "generateLesson"])
        /\ inflight' = Settle([op |-> "generateLesson"])
        /\ IF hasData
           THEN /\ RoomForSession
                /\ AddAndActivate(NewSession(DateNow, "lesson"))
                /\ Did("createNewSession/created")
           ELSE /\ createDialogOpen' = FALSE
                /\ loading' = FALSE
                /\ Did("createNewSession/nothingCreated")
                /\ UNCHANGED <<sessions, activeSession>>
        /\ UNCHANGED setup
        /\ UNCHANGED <<currentQuestion, currentQuestions, selectedAnswer,
                       showResults, error, activeQuizAttempt,
                       showQuizResults, quizResults>>
        /\ QuizDisplayKept

\* if (response.data && response.data.questions) { ... setCurrentQuestions(
\* response.data.questions); setCurrentQuestion(response.data.questions[0]) }
First_createNewSession_quizGenerated ==
    \E r \in Requests("generateQuiz/create"), resp \in QuizResponses, hasIds \in BOOLEAN :
        LET questions == First_Questions(resp.questions, hasIds)
        IN /\ limits.component = First
           /\ inflight' = Settle(r)
           /\ IF resp.hasQuestions
              THEN /\ RoomForSession
                   /\ AddAndActivate(NewSession(DateNow, r.session_type))
                   /\ currentQuestions' = questions
                   /\ currentQuestion' = IF Len(questions) > 0 THEN questions[1] ELSE Null
                   /\ Did("createNewSession/created")
              ELSE /\ createDialogOpen' = FALSE
                   /\ loading' = FALSE
                   /\ Did("createNewSession/nothingCreated")
                   /\ UNCHANGED <<sessions, activeSession, currentQuestion,
                                  currentQuestions>>
           /\ UNCHANGED setup
           /\ UNCHANGED <<selectedAnswer, showResults, error, activeQuizAttempt,
                          showQuizResults, quizResults>>
           /\ QuizDisplayKept

\* catch (err) { setError('Failed to create AI session. Please try again.') }
First_createNewSession_rejected ==
    \E r \in Requests("generateLesson") \cup Requests("generateQuiz/create") :
        /\ limits.component = First
        /\ inflight' = Settle(r)
        /\ error' = First_CreateError
        /\ loading' = FALSE
        /\ Did("createNewSession/generationFailed")
        /\ UNCHANGED setup
        /\ UNCHANGED <<sessions, activeSession, currentQuestion, currentQuestions,
                       selectedAnswer, showResults, activeQuizAttempt,
                       createDialogOpen, showQuizResults, quizResults>>
        /\ QuizDisplayKept

\* setActiveSession(session); if (session.session_type === 'quiz') await generateQuiz
First_startSession ==
    \E i \in DOMAIN sessions :
        LET quiz == sessions[i].session_type = "quiz"
        IN /\ limits.component = First
           /\ Invoke(SessionList)
           /\ quiz => CanSend
           /\ activeSession' = sessions[i]
           /\ inflight' = IF quiz
                          THEN Send([op |-> "generateQuiz/start", session |-> sessions[i]])
                          ELSE inflight
           /\ Did("startSession")
           /\ UNCHANGED <<sessions, currentQuestion, currentQuestions, selectedAnswer,
                          showResults, loading, error, activeQuizAttempt,
                          createDialogOpen, showQuizResults, quizResults>>
           /\ QuizDisplayKept

\* if (response.data && response.data.questions) { setCurrentQuestions(...);
\* setCurrentQuestion(response.data.questions[0]) }
First_startSession_generated ==
    \E r \in Requests("generateQuiz/start"), resp \in QuizResponses, hasIds \in BOOLEAN :
        LET questions == First_Questions(resp.questions, hasIds)
        IN /\ limits.component = First
           /\ inflight' = Settle(r)
           /\ IF resp.hasQuestions
              THEN /\ currentQuestions' = questions
                   /\ currentQuestion' = IF Len(questions) > 0 THEN questions[1] ELSE Null
                   /\ Did("startSession/loaded")
              ELSE /\ Did("startSession/nothingLoaded")
                   /\ UNCHANGED <<currentQuestion, currentQuestions>>
           /\ UNCHANGED setup
           /\ UNCHANGED <<sessions, activeSession, selectedAnswer, showResults, loading,
                          error, activeQuizAttempt, createDialogOpen,
                          showQuizResults, quizResults>>
           /\ QuizDisplayKept

\* catch (error) { setError('Failed to generate quiz questions') }
First_startSession_rejected ==
    \E r \in Requests("generateQuiz/start") :
        /\ limits.component = First
        /\ inflight' = Settle(r)
        /\ error' = StartError
        /\ Did("startSession/generationFailed")
        /\ UNCHANGED setup
        /\ UNCHANGED <<sessions, activeSession, currentQuestion, currentQuestions,
                       selectedAnswer, showResults, loading, activeQuizAttempt,
                       createDialogOpen, showQuizResults, quizResults,
                       currentQuestionIndex, selectedAnswers>>

\* if (!currentQuestion || !selectedAnswer) return; setShowResults(true)
First_handleAnswerSubmit ==
    /\ limits.component = First
    /\ Invoke(SubmitButton)
    /\ IF currentQuestion = Null \/ selectedAnswer = ""
       THEN /\ Did("handleAnswerSubmit/returned")
            /\ UNCHANGED showResults
       ELSE /\ showResults' = TRUE
            /\ Did("handleAnswerSubmit")
    /\ UNCHANGED <<sessions, activeSession, currentQuestion, currentQuestions,
                   selectedAnswer, loading, error, activeQuizAttempt,
                   createDialogOpen, showQuizResults, quizResults,
                   currentQuestionIndex, selectedAnswers, inflight>>

\* no early return: past the last question, or with no list, the session ends
First_handleNextQuestion ==
    /\ limits.component = First
    /\ Invoke(ResultCard)
    /\ LET currentIndex == FindIndex(currentQuestions, currentQuestion)
       IN IF currentIndex < Len(currentQuestions) - 1
          THEN /\ ShowQuestion(currentQuestions[currentIndex + 2])
               /\ Did("handleNextQuestion/next")
               /\ UNCHANGED <<activeSession, currentQuestions>>
          ELSE /\ currentQuestion' = Null
               /\ activeSession' = Null
               /\ currentQuestions' = <<>>
               /\ Did("handleNextQuestion/finished")
               /\ UNCHANGED <<selectedAnswer, showResults>>
    /\ UNCHANGED <<sessions, loading, error, activeQuizAttempt, createDialogOpen,
                   showQuizResults, quizResults, inflight>>
    /\ QuizDisplayKept

-----------------------------------------------------------------------------

Next ==
    \/ fetchSessions_resolved
    \/ fetchSessions_rejected
    \/ openCreateDialog
    \/ cancelCreateDialog
    \/ dismissError
    \/ createNewSession
    \/ createNewSession_lessonGenerated
    \/ createNewSession_lessonRejected
    \/ createNewSession_quizGenerated
    \/ createNewSession_quizRejected
    \/ createNewSession_sessionCreated
    \/ createNewSession_sessionRejected
    \/ setSelectedAnswer
    \/ handleAnswerSubmit
    \/ handleAnswerSubmit_quizSubmitted
    \/ handleAnswerSubmit_logged
    \/ handleNextQuestion
    \/ handleNextQuestion_quizSubmitted
    \/ startSession
    \/ startSession_generated
    \/ startSession_rejected
    \/ pauseSession
    \/ completeLesson
    \/ QuizDisplay_handleAnswerSelect
    \/ QuizDisplay_handlePreviousQuestion
    \/ QuizDisplay_handleNextQuestion
    \/ handleQuizClose
    \/ handleQuizRetake

\* the component driven through what it renders
Spec == Init /\ [][Next]_vars

\* the handlers called directly, whatever is rendered
SpecDirect == InitDirect /\ [][Next]_vars

\* every version of the component
\* one session at a time in LearningSessionSimple.tsx, any kind the dialog offers
LiveProfiles ==
    {[component |-> Simple, sessions |-> 1, inflight |-> 1, direct |-> 0,
      types |-> SessionTypes, failWhenFull |-> FALSE, malformed |-> FALSE]}

InitLive == limits \in LiveProfiles /\ directCalls = 0 /\ InitState

\* the calls to the backend's session store are answered in the end; the api
\* instance sets no timeout, so nothing makes a generation call end
SpecLive ==
    /\ InitLive
    /\ [][Next]_vars
    /\ WF_vars(fetchSessions_resolved \/ fetchSessions_rejected)
    /\ WF_vars(createNewSession_sessionCreated \/ createNewSession_sessionRejected)

NextVariants ==
    \/ Next
    \/ part_002_createNewSession
    \/ part_002_createNewSession_quizGenerated
    \/ part_002_createNewSession_quizRejected
    \/ part_002_createNewSession_sessionCreated
    \/ part_002_createNewSession_sessionRejected
    \/ part_002_startSession_generated
    \/ part_002_completeLessonTakeQuiz
    \/ LearningSession_createNewSession
    \/ LearningSession_createNewSession_sessionCreated
    \/ LearningSession_createNewSession_sessionRejected
    \/ LearningSession_startSession
    \/ First_createNewSession
    \/ First_createNewSession_lessonGenerated
    \/ First_createNewSession_quizGenerated
    \/ First_createNewSession_rejected
    \/ First_startSession
    \/ First_startSession_generated
    \/ First_startSession_rejected
    \/ First_handleAnswerSubmit
    \/ First_handleNextQuestion

SpecVariants == InitVariants /\ [][NextVariants]_vars

-----------------------------------------------------------------------------
(* Properties *)

\* a session whose questions are scored: kind quiz or practice
Scored(session) == session.session_type \in {"quiz", "practice"}

\* the accuracy the counters of a session determine
DerivedAccuracy(session) ==
    IF session.questions_attempted = 0 THEN Zero
    ELSE Frac(session.questions_correct * 100, session.questions_attempted)

\* the entries of the collection that carry the id of a session
EntriesOf(list, session) == {i \in DOMAIN list : list[i].id = session.id}

\* C1: every quiz or practice session, the active one and each entry of the
\* collection, has 0 <= questions_correct <= questions_attempted, and the
\* active one has attempted no more questions than are loaded for it.
C1_CountersWithinQuestions ==
    /\ \A i \in DOMAIN sessions :
          Scored(sessions[i]) =>
              /\ 0 <= sessions[i].questions_correct
              /\ sessions[i].questions_correct <= sessions[i].questions_attempted
    /\ (activeSession # Null /\ Scored(activeSession)) =>
          /\ 0 <= activeSession.questions_correct
          /\ activeSession.questions_correct <= activeSession.questions_attempted
          /\ activeSession.questions_attempted <= Len(currentQuestions)

\* C2: the accuracy_rate of every session, the active one and each entry of
\* the collection, is 0 when nothing was attempted and correct/attempted*100
\* otherwise, whatever operation stored it, fetchSessions included.
C2_AccuracyDerived ==
    /\ \A i \in DOMAIN sessions :
          sessions[i].accuracy_rate = DerivedAccuracy(sessions[i])
    /\ activeSession # Null =>
          activeSession.accuracy_rate = DerivedAccuracy(activeSession)

\* C3: a handleAnswerSubmit while the result of the current question is
\* showing changes neither the active session's counters nor the collection.
C3_SecondSubmitIgnored ==
    [][(showResults /\ last' = "handleAnswerSubmit")
          => UNCHANGED <<sessions, activeSession>>]_vars

\* C4: when handleNextQuestion ends a session from the result of its last
\* question, the session's entry in the collection has status completed.
C4_LastAdvanceCompletes ==
    [][(last' = "handleNextQuestion/finished" /\ activeSession # Null)
          => \A i \in EntriesOf(sessions', activeSession) :
                 sessions'[i].status = "completed"]_vars

\* C5: when a quiz or practice session of n questions is run to its end, by
\* handleNextQuestion or by the QuizDisplay overlay, its entry in the
\* collection has questions_attempted = n, the accuracy its counters
\* determine, and status completed.
C5_FinishedRunRecorded ==
    [][(/\ last' \in {"handleNextQuestion/finished", "handleQuizComplete"}
        /\ activeSession # Null
        /\ Scored(activeSession))
          => \A i \in EntriesOf(sessions', activeSession) :
                 /\ sessions'[i].questions_attempted = Len(currentQuestions)
                 /\ sessions'[i].accuracy_rate = DerivedAccuracy(sessions'[i])
                 /\ sessions'[i].status = "completed"]_vars

C7_LogFailureKeepsScore ==
    [][/\ (last' = "handleAnswerSubmit" /\ inflight' # inflight) =>
            /\ activeSession'.questions_attempted = activeSession.questions_attempted + 1
            /\ \A i \in EntriesOf(sessions', activeSession') : sessions'[i] = activeSession'
            /\ error' = error
       /\ last' \in {"handleAnswerSubmit/logFailed", "handleAnswerSubmit/quizSubmitFailed"} =>
            UNCHANGED <<sessions, activeSession, error>>]_vars

C7_Witness ==
    /\ last = "handleAnswerSubmit/logFailed"
    /\ activeSession # Null
    /\ activeSession.questions_attempted > 0
    /\ \E i \in EntriesOf(sessions, activeSession) :
          sessions[i].questions_attempted = activeSession.questions_attempted
    /\ error = ""

\* C8: when learningAPI.createSession is rejected after the questions were
\* generated, createNewSession still adds a session to the front of the
\* collection and makes it the active one, under an id made locally.
C8_BackendFailureCreatesLocally ==
    [][last' \in {"createNewSession/createdLocally", "createNewSession/sessionFailed"}
          => /\ Len(sessions') = Len(sessions) + 1
             /\ activeSession' = sessions'[1]
             /\ activeSession'.id \notin BackendIds]_vars

\* C9: when startSession resumes a paused session, the active session has
\* the questions_attempted of its entry in the collection and the current
\* question is the one at index questions_attempted of the loaded list.
C9_ResumeContinues ==
    [][(last' = "startSession/started" /\ activeSession'.status = "paused")
          => /\ \A i \in EntriesOf(sessions', activeSession') :
                    sessions'[i].questions_attempted = activeSession'.questions_attempted
             /\ activeSession'.questions_attempted < Len(currentQuestions')
                    => FindIndex(currentQuestions', currentQuestion')
                           = activeSession'.questions_attempted]_vars

\* C10: pauseSession clears the active session, sets the status of its entry
\* in the collection to paused without changing anything else of the entry,
\* and leaves every other entry as it was.
C10_PauseTouchesOnlyStatus ==
    [][(last' = "pauseSession" /\ activeSession # Null)
          => /\ activeSession' = Null
             /\ Len(sessions') = Len(sessions)
             /\ \A i \in DOMAIN sessions :
                    sessions'[i] = IF i \in EntriesOf(sessions, activeSession)
                                   THEN [sessions[i] EXCEPT !.status = "paused"]
                                   ELSE sessions[i]]_vars

\* C11: a handleAnswerSubmit with an empty selection or with no question
\* loaded reports a validation error, changes nothing of the session state
\* and sends no call.
C11_EmptySubmitRejected ==
    [][((selectedAnswer = "" \/ currentQuestion = Null)
         /\ last' \in {"handleAnswerSubmit", "handleAnswerSubmit/returned"})
          => /\ error' # ""
             /\ UNCHANGED <<sessions, activeSession, showResults, currentQuestion,
                            currentQuestions, inflight>>]_vars

\* C12: a handleNextQuestion while no result is showing changes neither the
\* current question, the selected answer nor the active session.
C12_AdvanceWhileAwaitingRejected ==
    [][(/\ ~showResults
        /\ activeSession # Null
        /\ currentQuestion # Null
        /\ last' \in {"handleNextQuestion/next", "handleNextQuestion/completing",
                      "handleNextQuestion/finished", "handleNextQuestion/returned"})
          => UNCHANGED <<currentQuestion, selectedAnswer, activeSession>>]_vars

\* C13: a quiz or practice session that createNewSession or startSession
\* makes active starts with a non-empty question list, its first question
\* current, no answer selected and no result showing.
C13_StartsAwaitingFirstAnswer ==
    [][(/\ last' \in {"createNewSession/created", "createNewSession/createdLocally",
                       "startSession/started"}
        /\ Scored(activeSession'))
          => /\ Len(currentQuestions') > 0
             /\ currentQuestion' = currentQuestions'[1]
             /\ selectedAnswer' = ""
             /\ ~showResults']_vars

\* C14: a quiz or practice session becomes the active session only in the
\* step that completes the generation call of its own create or start
\* request, the step that loads the list the call returned.
C14_NoPartialInitialization ==
    [][(/\ activeSession' # Null
        /\ Scored(activeSession')
        /\ activeSession = Null \/ activeSession.id # activeSession'.id)
          => \/ /\ last' \in {"createNewSession/created", "createNewSession/createdLocally"}
                /\ \E r \in Requests("createSession") : currentQuestions' = r.questions
             \/ /\ last' = "startSession/started"
                /\ limits.component # Full
                      => \E r \in Requests("generateQuiz/start") : r.session = activeSession']_vars

\* the steps in which a logging or lifecycle call of the answering handlers returns
CallReturned ==
    /\ inflight' # inflight
    /\ last' \in {"handleAnswerSubmit/logged", "handleAnswerSubmit/logFailed",
                  "handleAnswerSubmit/quizSubmitted", "handleAnswerSubmit/quizSubmitFailed",
                  "handleNextQuestion/finished"}

\* C15: handleAnswerSubmit counts the answer and shows the result in its own
\* step, before any call returns, and a logging or lifecycle call that
\* returns later changes nothing of the session state.
C15_CallsNeverChangeState ==
    [][/\ last' = "handleAnswerSubmit" =>
            /\ showResults'
            /\ activeSession'.questions_attempted = activeSession.questions_attempted + 1
       /\ CallReturned =>
            UNCHANGED <<sessions, activeSession, currentQuestion, currentQuestions,
                        selectedAnswer, showResults>>]_vars

\* the scoring fields and the status of a session
Progress(session) ==
    <<session.questions_attempted, session.questions_correct,
      session.accuracy_rate, session.status>>

\* C16: after every handleAnswerSubmit and handleNextQuestion the entries of
\* the collection with the id of the active session have its counters, its
\* accuracy and its status.
C16_StoreFollowsEngine ==
    [][(/\ last' \in {"handleAnswerSubmit", "handleNextQuestion/next",
                       "handleNextQuestion/completing", "handleNextQuestion/finished"}
        /\ activeSession' # Null)
          => \A i \in EntriesOf(sessions', activeSession') :
                 Progress(sessions'[i]) = Progress(activeSession')]_vars

\* C17: the ids of the sessions in the collection are pairwise distinct.
C17_IdsDistinct ==
    \A i, j \in DOMAIN sessions : sessions[i].id = sessions[j].id => i = j

C19_CompleteLessonCompletes ==
    [][(last' = "completeLesson" /\ activeSession # Null)
          => \A i \in EntriesOf(sessions', activeSession) :
                 /\ sessions'[i].status = "completed"
                 /\ sessions'[i].questions_attempted = sessions[i].questions_attempted
                 /\ sessions'[i].questions_correct = sessions[i].questions_correct]_vars

\* C20: an answer counts as correct exactly when the selected text is the
\* question's correct_answer, letter for letter: handleAnswerSubmit adds one
\* to questions_correct in that case and nothing otherwise, and QuizDisplay
\* counts the questions answered so.
C20_ExactScoring ==
    [][/\ last' = "handleAnswerSubmit" =>
            activeSession'.questions_correct =
                activeSession.questions_correct
                    + (IF selectedAnswer = currentQuestion.correct_answer THEN 1 ELSE 0)
       /\ last' = "handleQuizComplete" =>
            quizResults'.correctAnswers =
                Cardinality({i \in DOMAIN currentQuestions :
                    /\ currentQuestions[i].id \in DOMAIN selectedAnswers
                    /\ selectedAnswers[currentQuestions[i].id]
                           = currentQuestions[i].correct_answer})]_vars

C20_Witness ==
    /\ last = "handleAnswerSubmit"
    /\ selectedAnswer = "paris"
    /\ currentQuestion.correct_answer = "Paris"
    /\ activeSession.questions_attempted = 2
    /\ activeSession.questions_correct = 1

\* options: [q.options.A, q.options.B, ...]: the option a question's
\* correct_answer designates, be it the option's text or its key
DesignatedOption(question) ==
    IF \E k \in DOMAIN OptionKeys : OptionKeys[k] = question.correct_answer
    THEN OptionTexts[CHOOSE k \in DOMAIN OptionKeys :
                         OptionKeys[k] = question.correct_answer]
    ELSE question.correct_answer

\* C21: where the source of the questions names the correct answer by its key
\* (A, B, ...), submitting the option that key designates is scored as
\* correct: questions_correct grows by one.
C21_DesignatedOptionScores ==
    [][(/\ last' = "handleAnswerSubmit"
        /\ selectedAnswer = DesignatedOption(currentQuestion))
          => activeSession'.questions_correct
                 = activeSession.questions_correct + 1]_vars

\* C22: a question of the generation response that is structurally invalid
\* (here: it names no correct answer among its options) is dropped: the
\* question list createNewSession or startSession installs holds only
\* questions whose correct answer is one of the options.
C22_InvalidQuestionsDropped ==
    [][last' \in {"createNewSession/created", "createNewSession/createdLocally",
                  "startSession/started"}
          => \A i \in DOMAIN currentQuestions' :
                 \E k \in DOMAIN OptionTexts :
                     currentQuestions'[i].correct_answer = OptionTexts[k]]_vars

\* C23: a creation does not stay pending for ever: once createNewSession has
\* begun, loading is false again at some later time, even when the generation
\* call is never answered.
C23_CreationEnds == (last = "createNewSession") ~> ~loading

\* C24: Retake Quiz on the results of a quiz completed in QuizDisplay starts
\* the quiz again: a session is active, the question list has as many
\* questions as the quiz just completed, and the first of them is current.
C24_RetakeRestarts ==
    [][(last' = "handleQuizRetake" /\ quizResults # Null)
          => /\ activeSession' # Null
             /\ Len(currentQuestions') = quizResults.totalQuestions
             /\ Len(currentQuestions') > 0
             /\ currentQuestion' = currentQuestions'[1]]_vars

\* C25: every session of the collection is of kind lesson, quiz or practice,
\* whichever type the create dialog was set to.
C25_KindsOfSessions ==
    \A i \in DOMAIN sessions : sessions[i].session_type \in {"lesson", "quiz", "practice"}

\* C26: advancing from the result of question i, not the last one, shows
\* question i+1 with no answer selected and the result hidden, and leaves
\* the session's counters and status, the question list and the collection
\* as they were.
C26_AdvanceShowsNext ==
    [][(last' = "handleNextQuestion/next" /\ showResults)
          => /\ \A i \in 1..(Len(currentQuestions) - 1) :
                    currentQuestions[i] = currentQuestion
                        => currentQuestion' = currentQuestions[i + 1]
             /\ selectedAnswer' = ""
             /\ showResults' = FALSE
             /\ UNCHANGED <<sessions, activeSession, currentQuestions>>]_vars

\* C27: the controller never moves past a question that was not answered:
\* when handleNextQuestion advances from, or finishes at, the question of
\* index i, the active session has counted at least i+1 answers.
C27_NoAdvancePastUnanswered ==
    [][(/\ \/ last' \in {"handleNextQuestion/next", "handleNextQuestion/completing"}
           \/ (last' = "handleNextQuestion/finished" /\ inflight' = inflight)
        /\ activeSession # Null
        /\ FindIndex(currentQuestions, currentQuestion) >= 0)
          => activeSession.questions_attempted
                 >= FindIndex(currentQuestions, currentQuestion) + 1]_vars

\* C28: whenever a session is active, the collection holds a session with
\* the same id.
C28_ActiveSessionInCollection ==
    activeSession # Null => \E i \in DOMAIN sessions : sessions[i].id = activeSession.id

\* C29: QuizDisplay calls onComplete only when every question of the quiz
\* has a recorded answer, and the result it hands over counts all the
\* questions and between none and all of them as correct.
C29_CompleteOnlyWhenAllAnswered ==
    [][last' = "handleQuizComplete"
          => /\ \A i \in DOMAIN currentQuestions :
                    AnswerOf(selectedAnswers, currentQuestions[i]) # ""
             /\ quizResults'.totalQuestions = Len(currentQuestions)
             /\ quizResults'.correctAnswers \in 0..quizResults'.totalQuestions]_vars

\* a quiz of two questions completed with one of them answered correctly
C29_Witness ==
    /\ last = "handleQuizComplete"
    /\ quizResults # Null
    /\ quizResults.totalQuestions = 2
    /\ quizResults.correctAnswers = 1

\* C30: in an active session each advance moves from the question at one
\* place of the list to the question at the next place, never to the same
\* or an earlier one, and the session ends only from the last question: a
\* list of n questions is left after n advances.
C30_AdvancesTerminate ==
    [][\A i \in DOMAIN currentQuestions :
          (activeSession # Null /\ currentQuestions[i] = currentQuestion)
             => /\ last' = "handleNextQuestion/next"
                    => /\ i < Len(currentQuestions)
                       /\ currentQuestion' = currentQuestions[i + 1]
                /\ (\/ last' = "handleNextQuestion/completing"
                    \/ (last' = "handleNextQuestion/finished" /\ inflight' = inflight))
                    => i = Len(currentQuestions)]_vars

====
